---- MODULE Spec2Model ----
(***************************************************************************)
(* uvw::TTYHandle (src/uvw/tty.hpp): the console stream handle and the     *)
(* shared details::ResetModeMemo guard whose destructor calls              *)
(* uv_tty_reset_mode().                                                    *)
(*                                                                         *)
(* A handle slot h is the storage of one TTYHandle object.  The guard is a *)
(* std::shared_ptr<ResetModeMemo>; its control block is modelled by the    *)
(* strong count useCount[g].  The function-local static                    *)
(* std::weak_ptr<ResetModeMemo> of resetModeMemo() is the variable weak.   *)
(* The constructor and the destructor are split at their accesses to       *)
(* shared memory, so that the same actions give the single-threaded        *)
(* program (Spec: one call runs to completion before the next starts) and  *)
(* the program with handles on several threads (SpecThreads).              *)
(***************************************************************************)
EXTENDS Integers, FiniteSets, Sequences, TLC

\* ------------------------------------------------------------- bounds
MaxHandles == 2          \* handle slots (TTYHandle objects alive at once)
MaxCtors == 3            \* TTYHandle constructions in one run

Handles == 1..MaxHandles
Guards == 1..MaxCtors    \* identities of the ResetModeMemo objects ever made
NoGuard == 0             \* an empty shared_ptr / weak_ptr

\* ------------------------------------------------------------- environment
\* FileHandle values given to the constructor: 0 is stdin on a terminal,
\* 3 is a descriptor of a regular (redirected) file.
Descriptors == {0, 3}
IsTerminal(desc) == desc = 0
\* The status of a libuv call that failed (a negative errno: UV_EINVAL).
ErrStatus == {-22}
\* Values the OS reports for a window, and values the out-parameters of a
\* failed query may hold (WinSize size; is not initialized, line 118).
Dims == {24, 80}
LeftOver == Dims \cup {-1}

Modes == {"NORMAL", "RAW", "IO"}
DefaultMode == "NORMAL"

VTermStates == {"SUPPORTED", "UNSUPPORTED"}
\* The values of uv_tty_vtermstate_t behind the enumerators of lines 32-33.
UvVTermStates == {0, 1}
\* vterm on a platform that keeps no virtual-terminal state (Unix).
NoVTerm == -1
NoArgs == <<-1, 0>>

VARIABLES
    pc,          \* pc[h]: where the thread owning slot h is
    memo,        \* TTYHandle::memo, the handle's shared_ptr (NoGuard: empty)
    fd,          \* TTYHandle::fd
    rw,          \* TTYHandle::rw
    bound,       \* the uv_tty_t of h was initialized by uv_tty_init
    shared,      \* the local `shared` of resetModeMemo() running for h
    weak,        \* the static weak_ptr of resetModeMemo()
    useCount,    \* strong reference count of each guard's control block
    resetCount,  \* times ~ResetModeMemo ran uv_tty_reset_mode for the guard
    nextGuard,   \* identity of the next ResetModeMemo make_shared allocates
    ctors,       \* constructions started so far
    lifecycles,  \* constructions started while no TTYHandle object existed
    ttyMode,     \* the terminal's mode (OS state)
    ret,         \* the call just made on a handle and what it returned
    vterm,       \* the process's uv_tty_vtermstate_t (OS state), if any
    given,       \* the desc and readable each constructor was called with
    wasReset     \* reset() was called since the first handle was constructed

vars == <<pc, memo, fd, rw, bound, shared, weak, useCount, resetCount,
          nextGuard, ctors, lifecycles, ttyMode, ret, vterm, given, wasReset>>

\* ret.h is the handle called, ret.before the terminal's mode when a mode
\* call was made, ret.status and ret.out what the OS call gave, ret.val the
\* value returned.  Constructing or destroying a handle returns nothing.
NoCall == [op |-> "none", h |-> 0, arg |-> "none", before |-> "none",
           status |-> 0, out |-> <<0, 0>>, val |-> <<0, 0>>]

\* ------------------------------------------------------------- helpers
Alive(h) == pc[h] = "alive"
Busy(h) == pc[h] \notin {"none", "alive"}
AllGone == \A h \in Handles : pc[h] = "none"
Quiescent == \A h \in Handles : ~Busy(h)
\* Single-threaded use: a call runs to completion before another one starts.
Alone(h) == \A o \in Handles \ {h} : ~Busy(o)
Created(g) == g < nextGuard
\* The platform keeps a virtual-terminal state (Windows).
HasVTerm == vterm # NoVTerm
\* The ResetModeMemo object g exists: made and its destructor has not run.
Exists(g) == Created(g) /\ resetCount[g] = 0
Resets == LET Sum[g \in 0..MaxCtors] ==
                  IF g = 0 THEN 0 ELSE resetCount[g] + Sum[g - 1]
          IN Sum[MaxCtors]

\* ------------------------------------------------------------- shared_ptr
\* Each definition named *_<fault> below is the definition that follows it
\* with one plausible fault; the properties are shown to fail with it.
\*   weak not static (always empty); an expired guard handed out again
weak_lock_always_empty(w, cnt) == NoGuard
weak_lock_expired(w, cnt) == w
\* std::weak_ptr::lock(): the guard when it has not expired, else empty.
weak_lock(w, cnt) == IF w # NoGuard /\ cnt[w] > 0 THEN w ELSE NoGuard

\* a new strong reference to a live control block
add_ref_forgotten(n) == n
add_ref(n) == n + 1

\* shared_ptr release: the count after the atomic decrement; the releasing
\* thread destroys the object when it brought the count to zero.
release(n) == n - 1
is_last_off_by_one(n) == n <= 1
is_last(n) == n = 0

\* The state before any TTYHandle is constructed, on a platform whose
\* virtual-terminal state is v.
InitOn(v) ==
    /\ pc = [h \in Handles |-> "none"]
    /\ memo = [h \in Handles |-> NoGuard]
    /\ fd = [h \in Handles |-> -1]
    /\ rw = [h \in Handles |-> 0]
    /\ bound = [h \in Handles |-> FALSE]
    /\ shared = [h \in Handles |-> NoGuard]
    /\ weak = NoGuard
    /\ useCount = [g \in Guards |-> 0]
    /\ resetCount = [g \in Guards |-> 0]
    /\ nextGuard = 1
    /\ ctors = 0
    /\ lifecycles = 0
    /\ ttyMode = DefaultMode
    /\ ret = NoCall
    /\ vterm = v
    /\ given = [h \in Handles |-> NoArgs]
    /\ wasReset = FALSE

\* The program built for Unix.
Init == InitOn(NoVTerm)

\* The program built for any platform.
InitAnyPlatform == \E v \in {NoVTerm} \cup UvVTermStates : InitOn(v)

\* ------------------------------------------------------------- constructor
\* TTYHandle::TTYHandle is entered: StreamHandle{ca, ref} (line 71).
TTYHandle_ctor(h) ==
    /\ pc[h] = "none"
    /\ ctors < MaxCtors
    /\ pc' = [pc EXCEPT ![h] = "lock"]
    /\ ctors' = ctors + 1
    /\ lifecycles' = IF AllGone THEN lifecycles + 1 ELSE lifecycles
    /\ ret' = NoCall
    /\ UNCHANGED <<memo, fd, rw, bound, shared, weak, useCount, resetCount,
                   nextGuard, ttyMode>>
    /\ wasReset' = IF AllGone THEN FALSE ELSE wasReset
    /\ UNCHANGED <<vterm, given>>

\* resetModeMemo(), line 61: auto shared = weak.lock(); and the test of
\* line 62 on the local.
resetModeMemo_lock(h) ==
    /\ pc[h] = "lock"
    /\ LET s == weak_lock(weak, useCount) IN
         /\ shared' = [shared EXCEPT ![h] = s]
         /\ IF s # NoGuard
              THEN /\ useCount' = [useCount EXCEPT ![s] = add_ref(@)]
                   /\ pc' = [pc EXCEPT ![h] = "members"]
              ELSE /\ UNCHANGED useCount
                   /\ pc' = [pc EXCEPT ![h] = "make"]
    /\ UNCHANGED <<memo, fd, rw, bound, weak, resetCount, nextGuard, ctors,
                   lifecycles, ttyMode, ret>>
    /\ UNCHANGED <<vterm, given, wasReset>>

\* line 62: shared = std::make_shared<details::ResetModeMemo>()
resetModeMemo_make(h) ==
    /\ pc[h] = "make"
    /\ shared' = [shared EXCEPT ![h] = nextGuard]
    /\ useCount' = [useCount EXCEPT ![nextGuard] = 1]
    /\ nextGuard' = nextGuard + 1
    /\ pc' = [pc EXCEPT ![h] = "store"]
    /\ UNCHANGED <<memo, fd, rw, bound, weak, resetCount, ctors, lifecycles,
                   ttyMode, ret>>
    /\ UNCHANGED <<vterm, given, wasReset>>

\* fault: the new guard is not stored into weak
resetModeMemo_store_skipped(h) ==
    /\ pc[h] = "store"
    /\ pc' = [pc EXCEPT ![h] = "members"]
    /\ UNCHANGED <<memo, fd, rw, bound, shared, weak, useCount, resetCount,
                   nextGuard, ctors, lifecycles, ttyMode, ret>>
    /\ UNCHANGED <<vterm, given, wasReset>>

\* line 62: weak = shared
resetModeMemo_store(h) ==
    /\ pc[h] = "store"
    /\ weak' = shared[h]
    /\ pc' = [pc EXCEPT ![h] = "members"]
    /\ UNCHANGED <<memo, fd, rw, bound, shared, useCount, resetCount,
                   nextGuard, ctors, lifecycles, ttyMode, ret>>
    /\ UNCHANGED <<vterm, given, wasReset>>

\* line 63 and lines 72-75: return shared; memo{...}, fd{desc}, rw{readable}
TTYHandle_ctor_members(h, desc, readable) ==
    /\ pc[h] = "members"
    /\ memo' = [memo EXCEPT ![h] = shared[h]]
    /\ shared' = [shared EXCEPT ![h] = NoGuard]
    /\ fd' = [fd EXCEPT ![h] = desc]
    /\ rw' = [rw EXCEPT ![h] = IF readable THEN 1 ELSE 0]
    /\ bound' = [bound EXCEPT ![h] = FALSE]
    /\ pc' = [pc EXCEPT ![h] = "alive"]
    /\ UNCHANGED <<weak, useCount, resetCount, nextGuard, ctors, lifecycles,
                   ttyMode, ret>>
    /\ given' = [given EXCEPT ![h] = <<desc, IF readable THEN 1 ELSE 0>>]
    /\ UNCHANGED <<vterm, wasReset>>

\* ------------------------------------------------------------- destructor
\* ~TTYHandle (implicit) is entered: the object is no longer usable; rw and
\* fd are destroyed (members in reverse order of lines 181-183).
TTYHandle_dtor(h) ==
    /\ pc[h] = "alive"
    /\ pc' = [pc EXCEPT ![h] = "release"]
    /\ ret' = NoCall
    /\ UNCHANGED <<memo, fd, rw, bound, shared, weak, useCount, resetCount,
                   nextGuard, ctors, lifecycles, ttyMode>>
    /\ UNCHANGED <<vterm, given, wasReset>>

\* memo's destructor: the atomic decrement of the strong count.
memo_release(h) ==
    /\ pc[h] = "release"
    /\ LET n == release(useCount[memo[h]]) IN
         /\ useCount' = [useCount EXCEPT ![memo[h]] = n]
         /\ pc' = [pc EXCEPT ![h] = IF is_last(n) THEN "dispose" ELSE "base"]
    /\ UNCHANGED <<memo, fd, rw, bound, shared, weak, resetCount, nextGuard,
                   ctors, lifecycles, ttyMode, ret>>
    /\ UNCHANGED <<vterm, given, wasReset>>

\* fault: a destructor that does not call uv_tty_reset_mode
ResetModeMemo_dtor_empty(h) ==
    /\ pc[h] = "dispose"
    /\ pc' = [pc EXCEPT ![h] = "base"]
    /\ UNCHANGED <<memo, fd, rw, bound, shared, weak, useCount, resetCount,
                   nextGuard, ctors, lifecycles, ttyMode, ret>>
    /\ UNCHANGED <<vterm, given, wasReset>>

\* fault: a destructor that reports the failure of uv_tty_reset_mode
ResetModeMemo_dtor_reports(h) ==
    /\ pc[h] = "dispose"
    /\ resetCount' = [resetCount EXCEPT ![memo[h]] = @ + 1]
    /\ \E status \in {0} \cup ErrStatus :
         /\ ttyMode' = IF status = 0 THEN DefaultMode ELSE ttyMode
         /\ ret' = IF status = 0 THEN ret
                   ELSE [NoCall EXCEPT !.op = "~ResetModeMemo", !.h = h,
                                       !.status = status]
    /\ pc' = [pc EXCEPT ![h] = "base"]
    /\ UNCHANGED <<memo, fd, rw, bound, shared, weak, useCount, nextGuard,
                   ctors, lifecycles>>
    /\ UNCHANGED <<vterm, given, wasReset>>

\* fault: a destructor that resets the terminal only for a handle that was
\* bound to it
ResetModeMemo_dtor_if_bound(h) ==
    /\ pc[h] = "dispose"
    /\ IF bound[h]
         THEN /\ resetCount' = [resetCount EXCEPT ![memo[h]] = @ + 1]
              /\ \E status \in {0} \cup ErrStatus :
                   ttyMode' = IF status = 0 THEN DefaultMode ELSE ttyMode
         ELSE UNCHANGED <<resetCount, ttyMode>>
    /\ pc' = [pc EXCEPT ![h] = "base"]
    /\ UNCHANGED <<memo, fd, rw, bound, shared, weak, useCount, nextGuard,
                   ctors, lifecycles, ret>>
    /\ UNCHANGED <<vterm, given, wasReset>>

\* details::ResetModeMemo::~ResetModeMemo, lines 18-20: uv_tty_reset_mode();
\* its status is discarded.
ResetModeMemo_dtor(h) ==
    /\ pc[h] = "dispose"
    /\ resetCount' = [resetCount EXCEPT ![memo[h]] = @ + 1]
    /\ \E status \in {0} \cup ErrStatus :
         ttyMode' = IF status = 0 THEN DefaultMode ELSE ttyMode
    /\ pc' = [pc EXCEPT ![h] = "base"]
    /\ UNCHANGED <<memo, fd, rw, bound, shared, weak, useCount, nextGuard,
                   ctors, lifecycles, ret>>
    /\ UNCHANGED <<vterm, given, wasReset>>

\* the base class destructors run and the storage is freed
TTYHandle_dtor_end(h) ==
    /\ pc[h] = "base"
    /\ memo' = [memo EXCEPT ![h] = NoGuard]
    /\ fd' = [fd EXCEPT ![h] = -1]
    /\ rw' = [rw EXCEPT ![h] = 0]
    /\ bound' = [bound EXCEPT ![h] = FALSE]
    /\ pc' = [pc EXCEPT ![h] = "none"]
    /\ UNCHANGED <<shared, weak, useCount, resetCount, nextGuard, ctors,
                   lifecycles, ttyMode, ret>>
    /\ given' = [given EXCEPT ![h] = NoArgs]
    /\ UNCHANGED <<vterm, wasReset>>

\* ------------------------------------------------------------- OS calls
\* Status of uv_tty_init(loop, handle, fd, rw): 0 on a terminal descriptor.
uv_tty_init(desc) == IF IsTerminal(desc) THEN {0} ELSE ErrStatus

\* Status of uv_tty_set_mode(handle, m): 0 on a handle bound to a terminal,
\* an error on a handle whose descriptor is no terminal; on a handle that
\* names a terminal but was never bound the call is not meaningful and either
\* may come back.
uv_tty_set_mode(h) ==
    IF bound[h] THEN {0}
    ELSE IF ~IsTerminal(fd[h]) THEN ErrStatus
    ELSE {0} \cup ErrStatus

\* uv_tty_get_winsize(handle, &width, &height): the status and what the two
\* out-parameters hold afterwards.  On success they hold the window; on
\* failure they hold whatever they held before (size is not initialized).
uv_tty_get_winsize(h) ==
    (IF bound[h]
       THEN {[status |-> 0, width |-> w, height |-> t] : w \in Dims, t \in Dims}
       ELSE {})
    \cup {[status |-> e, width |-> w, height |-> t] :
             e \in ErrStatus, w \in LeftOver, t \in LeftOver}

\* uv_tty_reset_mode(): the status and the terminal's mode afterwards: the
\* default restored on success, the mode untouched on failure.
uv_tty_reset_mode(m) ==
    {[status |-> 0, mode |-> DefaultMode]}
    \cup {[status |-> e, mode |-> m] : e \in ErrStatus}

\* uv_tty_set_vterm_state(n): the process's state afterwards.  "This function
\* is only meaningful on Windows systems. On Unix it is silently ignored."
uv_tty_set_vterm_state(v, n) == IF v = NoVTerm THEN v ELSE n

\* uv_tty_get_vterm_state(&state): what state holds afterwards.  "This
\* function is not implemented on Unix": the local of line 175 is left
\* uninitialized there, and may hold any value.
uv_tty_get_vterm_state(v) == IF v = NoVTerm THEN UvVTermStates \cup {7} ELSE {v}

\* ------------------------------------------------------------- calls
\* Handle::initialize(&uv_tty_init, fd, rw): true when the OS call succeeded.
initialize(status) == status = 0

\* fault: init binds the handle as readable whatever the constructor was told
init_always_readable(h) ==
    /\ Alive(h)
    /\ ~bound[h]
    /\ \E status \in uv_tty_init(fd[h]) :
         /\ bound' = [bound EXCEPT ![h] = initialize(status)]
         /\ ret' = [op |-> "init", h |-> h, arg |-> "none", before |-> "none",
                    status |-> status, out |-> <<fd[h], 1>>,
                    val |-> initialize(status)]
    /\ UNCHANGED <<pc, memo, fd, rw, shared, weak, useCount, resetCount,
                   nextGuard, ctors, lifecycles, ttyMode>>
    /\ UNCHANGED <<vterm, given, wasReset>>

\* TTYHandle::init, lines 81-83.  ret.out is the descriptor and the
\* readability flag handed to uv_tty_init.
init(h) ==
    /\ Alive(h)
    /\ ~bound[h]
    /\ \E status \in uv_tty_init(fd[h]) :
         /\ bound' = [bound EXCEPT ![h] = initialize(status)]
         /\ ret' = [op |-> "init", h |-> h, arg |-> "none", before |-> "none",
                    status |-> status, out |-> <<fd[h], rw[h]>>,
                    val |-> initialize(status)]
    /\ UNCHANGED <<pc, memo, fd, rw, shared, weak, useCount, resetCount,
                   nextGuard, ctors, lifecycles, ttyMode>>
    /\ UNCHANGED <<vterm, given, wasReset>>

\* TTYHandle::mode, lines 101-103: the value returned for an OS status
mode_returns_truthy(status) == 0 # status
mode_returns(status) == 0 = status

\* static_cast<std::underlying_type_t<Mode>>(m), line 102, with the
\* enumerators of lines 25-27
UVTTYModeT_io_as_raw(m) == IF m = "NORMAL" THEN 0 ELSE 1
UVTTYModeT(m) == IF m = "NORMAL" THEN 0 ELSE IF m = "RAW" THEN 1 ELSE 2

\* the terminal mode a uv_tty_mode_t value stands for
uv_tty_mode_t(n) == IF n = 0 THEN "NORMAL" ELSE IF n = 1 THEN "RAW" ELSE "IO"

\* The handle keeps nothing of the call: the mode goes to the OS, which on
\* success puts the terminal itself into it.
mode(h, m) ==
    /\ Alive(h)
    /\ \E status \in uv_tty_set_mode(h) :
         /\ ttyMode' = IF status = 0 THEN uv_tty_mode_t(UVTTYModeT(m))
                                      ELSE ttyMode
         /\ ret' = [op |-> "mode", h |-> h, arg |-> m, before |-> ttyMode,
                    status |-> status, out |-> <<0, 0>>,
                    val |-> mode_returns(status)]
    /\ UNCHANGED <<pc, memo, fd, rw, bound, shared, weak, useCount,
                   resetCount, nextGuard, ctors, lifecycles>>
    /\ UNCHANGED <<vterm, given, wasReset>>

\* TTYHandle::getWinSize, lines 117-126: the WinSize returned, given the
\* status and the contents of size after the OS call
WinSize_width_only(status, width, height) ==
    IF 0 # status THEN <<-1, height>> ELSE <<width, height>>
WinSize(status, width, height) ==
    IF 0 # status THEN <<-1, -1>> ELSE <<width, height>>

getWinSize(h) ==
    /\ Alive(h)
    /\ \E os \in uv_tty_get_winsize(h) :
         ret' = [op |-> "getWinSize", h |-> h, arg |-> "none",
                 before |-> "none", status |-> os.status,
                 out |-> <<os.width, os.height>>,
                 val |-> WinSize(os.status, os.width, os.height)]
    /\ UNCHANGED <<pc, memo, fd, rw, bound, shared, weak, useCount,
                   resetCount, nextGuard, ctors, lifecycles, ttyMode>>
    /\ UNCHANGED <<vterm, given, wasReset>>

\* TTYHandle::reset, lines 109-111: the value returned for an OS status
reset_returns_truthy(status) == 0 # status
reset_returns(status) == 0 = status

\* fault: reset() also drops the handle's reference to the guard
reset_releases_memo(h) ==
    /\ Alive(h)
    /\ \E os \in uv_tty_reset_mode(ttyMode) :
         /\ ttyMode' = os.mode
         /\ ret' = [op |-> "reset", h |-> h,
                    arg |-> IF ret.op = "reset" /\ ret.val = TRUE
                              THEN "again" ELSE "first",
                    before |-> ttyMode, status |-> os.status,
                    out |-> <<0, 0>>, val |-> reset_returns(os.status)]
    /\ wasReset' = TRUE
    /\ useCount' = [useCount EXCEPT ![memo[h]] = IF @ > 1 THEN release(@) ELSE @]
    /\ UNCHANGED <<pc, memo, fd, rw, bound, shared, weak, resetCount,
                   nextGuard, ctors, lifecycles, vterm, given>>

\* ret.arg tells whether the call follows directly a reset() that returned
\* true; wasReset, whether reset() was called in the current lifecycle.
reset(h) ==
    /\ Alive(h)
    /\ \E os \in uv_tty_reset_mode(ttyMode) :
         /\ ttyMode' = os.mode
         /\ ret' = [op |-> "reset", h |-> h,
                    arg |-> IF ret.op = "reset" /\ ret.val = TRUE
                              THEN "again" ELSE "first",
                    before |-> ttyMode, status |-> os.status,
                    out |-> <<0, 0>>, val |-> reset_returns(os.status)]
    /\ wasReset' = TRUE
    /\ UNCHANGED <<pc, memo, fd, rw, bound, shared, weak, useCount,
                   resetCount, nextGuard, ctors, lifecycles, vterm, given>>

\* TTYHandle::vtermState(VTermState), the switch of lines 147-154: the
\* uv_tty_vtermstate_t handed to uv_tty_set_vterm_state
vtermState_arg_swapped(st) == IF st = "SUPPORTED" THEN 1 ELSE 0
vtermState_arg(st) == IF st = "SUPPORTED" THEN 0 ELSE 1

\* VTermState{state}, line 177
VTermState(n) ==
    IF n = 0 THEN "SUPPORTED" ELSE IF n = 1 THEN "UNSUPPORTED" ELSE "invalid"

\* The last call set or read a virtual-terminal state the platform keeps.
IsVTermCall == HasVTerm /\ ret.op \in {"vtermState(s)", "vtermState()"}

\* fault: the call reports an error where the platform has no such state
vtermState_set_checked(h, st) ==
    /\ Alive(h)
    /\ vterm' = uv_tty_set_vterm_state(vterm, vtermState_arg(st))
    /\ ret' = [op |-> "vtermState(s)", h |-> h, arg |-> st, before |-> ttyMode,
               status |-> IF HasVTerm THEN 0 ELSE -22, out |-> <<h, 0>>,
               val |-> IF HasVTerm THEN "void" ELSE "error"]
    /\ UNCHANGED <<pc, memo, fd, rw, bound, shared, weak, useCount,
                   resetCount, nextGuard, ctors, lifecycles, ttyMode, given,
                   wasReset>>

\* TTYHandle::vtermState(VTermState), lines 146-155: returns nothing.
\* ret.out[1] is the handle the state was last set through.
vtermState_set(h, st) ==
    /\ Alive(h)
    /\ vterm' = uv_tty_set_vterm_state(vterm, vtermState_arg(st))
    /\ ret' = [op |-> "vtermState(s)", h |-> h, arg |-> st, before |-> ttyMode,
               status |-> 0, out |-> <<h, 0>>, val |-> "void"]
    /\ UNCHANGED <<pc, memo, fd, rw, bound, shared, weak, useCount,
                   resetCount, nextGuard, ctors, lifecycles, ttyMode, given,
                   wasReset>>

\* TTYHandle::vtermState(), lines 174-178.  Where the platform keeps the
\* state, ret.arg is the state set by the vtermState(s) call that precedes
\* this one with only vtermState() calls in between, if there is one, and
\* ret.out[1] the handle it was made through.
vtermState_get(h) ==
    /\ Alive(h)
    /\ \E n \in uv_tty_get_vterm_state(vterm) :
         ret' = [op |-> "vtermState()", h |-> h,
                 arg |-> IF IsVTermCall THEN ret.arg ELSE "none",
                 before |-> ttyMode, status |-> 0,
                 out |-> IF IsVTermCall THEN ret.out ELSE <<0, 0>>,
                 val |-> VTermState(n)]
    /\ UNCHANGED <<pc, memo, fd, rw, bound, shared, weak, useCount,
                   resetCount, nextGuard, ctors, lifecycles, ttyMode, vterm,
                   given, wasReset>>

\* Everything a thread does once its constructor or destructor has begun,
\* and the destruction of a constructed handle.
Finish(h, descs, flags) ==
    \/ resetModeMemo_lock(h)
    \/ resetModeMemo_make(h)
    \/ resetModeMemo_store(h)
    \/ \E desc \in descs, readable \in flags :
         TTYHandle_ctor_members(h, desc, readable)
    \/ TTYHandle_dtor(h)
    \/ memo_release(h)
    \/ ResetModeMemo_dtor(h)
    \/ TTYHandle_dtor_end(h)

Lifecycle(h, descs, flags) == TTYHandle_ctor(h) \/ Finish(h, descs, flags)

\* The constructor arguments (desc, readable) the single-threaded program
\* uses: the terminal readable or not, the other descriptor readable.
CtorArgs == {a \in Descriptors \X BOOLEAN : IsTerminal(a[1]) \/ a[2]}

\* Handles used from one thread.
Next ==
    \E h \in Handles :
        \/ Alone(h) /\ TTYHandle_ctor(h)
        \/ Alone(h) /\ resetModeMemo_lock(h)
        \/ Alone(h) /\ resetModeMemo_make(h)
        \/ Alone(h) /\ resetModeMemo_store(h)
        \/ \E args \in CtorArgs :
             Alone(h) /\ TTYHandle_ctor_members(h, args[1], args[2])
        \/ Alone(h) /\ TTYHandle_dtor(h)
        \/ Alone(h) /\ memo_release(h)
        \/ Alone(h) /\ ResetModeMemo_dtor(h)
        \/ Alone(h) /\ TTYHandle_dtor_end(h)
        \/ Alone(h) /\ init(h)
        \/ \E m \in Modes : Alone(h) /\ mode(h, m)
        \/ Alone(h) /\ getWinSize(h)
        \/ Alone(h) /\ reset(h)
        \/ \E st \in VTermStates : Alone(h) /\ vtermState_set(h, st)
        \/ Alone(h) /\ vtermState_get(h)

Spec == Init /\ [][Next]_vars

\* Handles used from one thread, on any platform, by a program that sets
\* modes and sets and reads the virtual-terminal state.
NextVTerm ==
    \E h \in Handles :
        \/ Alone(h) /\ TTYHandle_ctor(h)
        \/ Alone(h) /\ resetModeMemo_lock(h)
        \/ Alone(h) /\ resetModeMemo_make(h)
        \/ Alone(h) /\ resetModeMemo_store(h)
        \/ \E desc \in Descriptors :
             Alone(h) /\ TTYHandle_ctor_members(h, desc, TRUE)
        \/ Alone(h) /\ TTYHandle_dtor(h)
        \/ Alone(h) /\ memo_release(h)
        \/ Alone(h) /\ ResetModeMemo_dtor(h)
        \/ Alone(h) /\ TTYHandle_dtor_end(h)
        \/ Alone(h) /\ init(h)
        \/ \E m \in Modes : Alone(h) /\ mode(h, m)
        \/ \E st \in VTermStates : Alone(h) /\ vtermState_set(h, st)
        \/ Alone(h) /\ vtermState_get(h)

SpecVTerm == InitAnyPlatform /\ [][NextVTerm]_vars

\* Handles constructed and destroyed on different threads, each thread
\* opening stdin for reading (the guard does not depend on the arguments).
NextThreads == \E h \in Handles : Lifecycle(h, {0}, {TRUE})

SpecThreads == Init /\ [][NextThreads]_vars

\* The same, where every thread goes on running and every constructed handle
\* is eventually destroyed.
SpecLive ==
    /\ Init
    /\ [][NextThreads]_vars
    /\ \A h \in Handles : WF_vars(Finish(h, {0}, {TRUE}))

\* ------------------------------------------------------------- claims
\* A handle that has not yet given up its reference: under construction,
\* alive, or in its destructor before memo was released and disposed of.
Pending(h) == pc[h] \notin {"none", "base"}
LiveHandles == {h \in Handles : Alive(h)}
LiveGuards == {g \in Guards : Exists(g)}
Disposing(g) == {h \in Handles : pc[h] = "dispose" /\ memo[h] = g}

\* C1: in the single-threaded program, the handles constructed from the state
\* with no guard and all destroyed, in any order, make the guard's reset run
\* exactly once per such lifecycle, and it runs at the destruction of the last
\* handle: as long as a handle of the lifecycle still holds its reference the
\* reset of this lifecycle has not run.
C1_ResetOncePerLifecycle ==
    IF \E h \in Handles : Pending(h)
      THEN Resets = lifecycles - 1
      ELSE Resets = lifecycles

C1_Witness ==
    /\ AllGone
    /\ lifecycles = 1
    /\ ctors >= 2
    /\ Resets = 1

\* C2: with handles destroyed on different threads, the atomic decrements of
\* one guard's count make exactly one release the last: the guard's reset is
\* run by at most one thread, not before the count is zero, and once the count
\* is zero it is being run or has run exactly once.
C2_ExactlyOneLastHolder ==
    \A g \in Guards :
        Created(g) =>
            /\ Cardinality(Disposing(g)) + resetCount[g] <= 1
            /\ useCount[g] > 0 => Cardinality(Disposing(g)) + resetCount[g] = 0
            /\ useCount[g] = 0 => Cardinality(Disposing(g)) + resetCount[g] = 1

C2_Witness ==
    \E h1 \in Handles, h2 \in Handles :
        /\ h1 # h2
        /\ pc[h1] = "base" /\ pc[h2] = "base"
        /\ memo[h1] = memo[h2]
        /\ memo[h1] # NoGuard
        /\ resetCount[memo[h1]] = 1

\* C3: in the single-threaded program at most one ResetModeMemo object exists
\* in any state, and every constructed handle holds it.
C3_AtMostOneGuard ==
    /\ Cardinality(LiveGuards) <= 1
    /\ \A h \in LiveHandles : memo[h] \in LiveGuards

C3_Witness ==
    \E h1 \in LiveHandles, h2 \in LiveHandles :
        /\ h1 # h2
        /\ memo[h1] = memo[h2]
        /\ LiveGuards = {memo[h1]}

\* C4: handles constructed on different threads all hold the same guard.
C4_ThreadsShareOneGuard ==
    \A h1 \in LiveHandles, h2 \in LiveHandles : memo[h1] = memo[h2]

\* C5: the guard's reset never runs while a fully constructed TTYHandle is
\* alive, whatever the interleaving of constructions and destructions.
C5_NoResetWhileHandleAlive ==
    [][Resets' # Resets => LiveHandles = {}]_vars

\* C6: two lifetimes with no handle in between: the second lifetime's handles
\* hold a fresh guard, the second object made, while the first guard's reset
\* has run; after the second lifetime the reset has run exactly twice, once
\* for each of the two guards.
C6_DisjointLifetimesResetTwice ==
    lifecycles = 2 =>
        /\ \A h \in LiveHandles :
              /\ memo[h] = 2
              /\ resetCount[1] = 1
              /\ resetCount[2] = 0
        /\ AllGone => Resets = 2 /\ resetCount[1] = 1 /\ resetCount[2] = 1

C6_Witness ==
    /\ AllGone
    /\ lifecycles = 2
    /\ Resets = 2

\* C7: when every constructed handle is eventually destroyed, the reset of
\* every guard ever created eventually runs, and no guard's reset runs more
\* than once.
C7_EveryGuardResetsOnce ==
    \A g \in Guards :
        /\ [](Created(g) => <>(resetCount[g] = 1))
        /\ [](resetCount[g] <= 1)

C7_Witness ==
    /\ nextGuard >= 3
    /\ \A g \in Guards : Created(g) => resetCount[g] = 1

\* C8: between the calls of the single-threaded program a guard exists
\* exactly when a TTYHandle is alive, every live handle holds it, and its
\* count of holders is the number of live handles.
C8_HoldersAreLiveHandles ==
    Quiescent =>
        /\ LiveGuards # {} <=> LiveHandles # {}
        /\ \A g \in LiveGuards :
              /\ useCount[g] = Cardinality(LiveHandles)
              /\ \A h \in LiveHandles : memo[h] = g

C8_Witness ==
    /\ Quiescent
    /\ Cardinality(LiveHandles) = 2
    /\ \E g \in LiveGuards : useCount[g] = 2

\* C9: getWinSize returns (-1,-1) whenever the OS query failed, whatever the
\* query left in width and height, returns what the OS reported when it
\* succeeded, and never returns the sentinel in one field only.
C9_WinSizeSentinel ==
    ret.op = "getWinSize" =>
        /\ ret.status # 0 => ret.val = <<-1, -1>>
        /\ ret.status = 0 => ret.val = ret.out
        /\ ret.val[1] = -1 <=> ret.val[2] = -1

C9_Witness ==
    /\ ret.op = "getWinSize"
    /\ ret.status # 0
    /\ ret.out = <<80, 24>>
    /\ ret.val = <<-1, -1>>

\* C10: every mode call returns true exactly when the OS call's status is 0:
\* true for every mode on a handle bound to a terminal, false for every mode
\* on a handle whose descriptor is not a terminal.
C10_ModeReturnsOsSuccess ==
    ret.op = "mode" =>
        /\ ret.arg \in Modes
        /\ ret.val = (ret.status = 0)
        /\ bound[ret.h] => ret.val = TRUE
        /\ ~IsTerminal(fd[ret.h]) => ret.val = FALSE

C10_Witness ==
    /\ ret.op = "mode"
    /\ ret.arg = "NORMAL"
    /\ ret.before = "RAW"
    /\ ret.val = TRUE
    /\ bound[ret.h]

\* C11: reset() returns the OS call's success; after a reset() that returned
\* true the terminal is in the default mode; a reset() made right after one
\* that returned true, or made when the mode is the default already, leaves
\* the terminal in the default mode, whatever it returns itself.
C11_ResetIdempotent ==
    ret.op = "reset" =>
        /\ ret.val = (ret.status = 0)
        /\ ret.val = TRUE => ttyMode = DefaultMode
        /\ ret.arg = "again" => ret.before = DefaultMode
        /\ ret.before = DefaultMode => ttyMode = DefaultMode

C11_Witness ==
    /\ ret.op = "reset"
    /\ ret.arg = "again"
    /\ ret.val = TRUE
    /\ ttyMode = DefaultMode

\* C12: after a reset() on any handle, however often repeated, the guard
\* exists, has not run its reset, and its count of holders is the number of
\* live handles; and in a lifecycle in which reset() was called the guard's
\* reset still runs exactly once, at the destruction of the last handle.
C12_ResetLeavesGuardAlone ==
    /\ ret.op = "reset" =>
          /\ memo[ret.h] \in LiveGuards
          /\ resetCount[memo[ret.h]] = 0
          /\ useCount[memo[ret.h]] = Cardinality(LiveHandles)
    /\ wasReset =>
          /\ Resets = (IF \E h \in Handles : Pending(h)
                         THEN lifecycles - 1 ELSE lifecycles)
          /\ \A h \in Handles :
                pc[h] = "base" /\ (\A o \in Handles : ~Pending(o))
                    => resetCount[memo[h]] = 1

C12_Witness ==
    /\ wasReset
    /\ ctors = 2
    /\ lifecycles = 1
    /\ \E h \in Handles : pc[h] = "base" /\ resetCount[memo[h]] = 1

\* C13: whatever calls were made on whichever handles, every live handle's
\* descriptor and readability flag are those its constructor was given, and
\* init() hands exactly those two to the OS.
C13_DescriptorAndFlagFixed ==
    /\ \A h \in LiveHandles : <<fd[h], rw[h]>> = given[h]
    /\ ret.op = "init" => ret.out = given[ret.h]

C13_Witness ==
    /\ ret.op = "init"
    /\ ret.out = <<0, 0>>
    /\ wasReset
    /\ ttyMode = "RAW"
    /\ \E h \in LiveHandles \ {ret.h} : given[h] = <<3, 1>> /\ fd[h] = 3

C15_VTermSetNeverFails ==
    ret.op = "vtermState(s)" =>
        /\ ret.val = "void"
        /\ ret.status = 0
        /\ ~HasVTerm =>
              /\ ttyMode = ret.before
              /\ Quiescent
              /\ memo[ret.h] \in LiveGuards
              /\ useCount[memo[ret.h]] = Cardinality(LiveHandles)
              /\ \A h \in LiveHandles : <<fd[h], rw[h]>> = given[h]

C15_Witness ==
    /\ ret.op = "vtermState(s)"
    /\ ret.arg = "SUPPORTED"
    /\ ~HasVTerm
    /\ ttyMode = "RAW"
    /\ Cardinality(LiveHandles) = 2

\* C16: whether the guard's OS reset succeeded or failed, the destructor
\* that ran it hands nothing to any caller and goes on to the base
\* destructors; once every handle is gone no guard exists, and the handles
\* constructed afterwards hold a new guard whose reset has not run.
C16_GuardFailsSilently ==
    /\ \A h \in Handles : pc[h] = "base" => ret = NoCall
    /\ AllGone => LiveGuards = {} /\ weak_lock(weak, useCount) = NoGuard
    /\ \A h \in LiveHandles :
          /\ memo[h] = lifecycles
          /\ resetCount[memo[h]] = 0
          /\ \A g \in Guards : g < memo[h] => resetCount[g] = 1

\* The first guard's reset failed (no call was made since, and the terminal
\* is not in the default mode), and the next handle holds the second guard.
C16_Witness ==
    /\ ctors = 2
    /\ lifecycles = 2
    /\ ret = NoCall
    /\ ttyMode # DefaultMode
    /\ \E h \in LiveHandles : memo[h] = 2 /\ resetCount[1] = 1

\* C17: a handle counts as a holder of the guard from its construction on,
\* bound by init() or not; and the destruction of a last handle that was
\* never bound (never initialized, or init() returned false, so that no
\* mode() through it succeeded either) runs the guard's reset exactly once.
C17_UnboundHandleIsHolder ==
    \A h \in Handles :
        ~bound[h] =>
            /\ Alive(h) =>
                  /\ memo[h] \in LiveGuards
                  /\ Quiescent => useCount[memo[h]] = Cardinality(LiveHandles)
            /\ pc[h] = "base" /\ (\A o \in Handles : ~Pending(o))
                  => resetCount[memo[h]] = 1

C17_Witness ==
    \E h \in Handles :
        /\ pc[h] = "base"
        /\ ~bound[h]
        /\ ~IsTerminal(fd[h])
        /\ ctors = 1
        /\ resetCount[memo[h]] = 1

\* C18: where the platform keeps a virtual-terminal state, it is the state
\* last set, through whichever handle: vtermState(s) leaves it at s,
\* vtermState() returns it, so a vtermState() after a vtermState(s) returns s;
\* vtermState() leaves the terminal's mode as it was.
C18_VTermRoundTrip ==
    HasVTerm =>
        /\ ret.op = "vtermState(s)" => VTermState(vterm) = ret.arg
        /\ ret.op = "vtermState()" =>
              /\ ret.val = VTermState(vterm)
              /\ ret.arg \in VTermStates => ret.val = ret.arg
              /\ ttyMode = ret.before

C18_Witness ==
    /\ HasVTerm
    /\ ret.op = "vtermState()"
    /\ ret.arg = "SUPPORTED"
    /\ ret.val = "SUPPORTED"
    /\ ret.out[1] \in Handles \ {ret.h}

====
